---- MODULE Spec2Model ----
(***************************************************************************)
(* Content ingestion of the Clone Hero content manager:                    *)
(*   services/content_utils.py   extract_archive, extract_content          *)
(*   services/content_manager.py parse_song_ini, add_content_to_db,        *)
(*                               process_and_store_content                 *)
(*   services/database_explorer.py delete_song_by_id                       *)
(* Two specifications:                                                     *)
(*   SpecStore  concurrent add_content_to_db calls, one step per SQL       *)
(*              statement (SELECT, INSERT, COMMIT);                        *)
(*   Spec       extract_content calls made one after another, over a file  *)
(*              system and the songs table.                                *)
(* Strings are sequences of one-character strings, so that trimming and    *)
(* case are computed.  A path is a sequence of segments, a segment is a    *)
(* sequence of strings (<<"A">> is the name A, title \o <<"_", tok>> the   *)
(* folder name f"{title}_{tok}").                                          *)
(***************************************************************************)
EXTENDS Integers, Sequences, FiniteSets, TLC

\* Number of concurrent add_content_to_db callers (SpecStore).
NumCallers == 3
\* Number of extract_content calls in one behaviour (Spec).
MaxCalls == 2
\* Number of delete_song_by_id calls in one behaviour (Spec).
MaxDeletes == 1
\* Number of failures of the operating system or of the database that one
\* behaviour injects (Spec).
MaxFaults == 1
\* Number of beats handed to generate_notes_chart (SpecChart).
MaxBeats == 4

VARIABLES
    db,            \* committed rows of the songs table
    nextId,        \* next value of the songs.id sequence
    hasUnique,     \* whether the schema declares UNIQUE (title, artist, album)
    cpc,           \* SpecStore: caller -> "select" | "insert" | "commit" | "done"
    ctriple,       \* SpecStore: caller -> the triple it stores
    cret,          \* SpecStore: caller -> returned id (0 while running)
    pending,       \* SpecStore: caller -> rows inserted and not yet committed
    dirs,          \* directories of the file system
    files,         \* regular files of the file system
    pathlibRaises, \* pathlib's rglob raises on a vanished directory (<= 3.11)
    pc,            \* Spec: position of the extract_content call
    input,         \* Spec: the file handed to extract_content
    ctype,         \* Spec: the declared content type
    scratch,       \* Spec: temp_extract_dir of the call
    stack,         \* Spec: directories rglob still has to visit
    resume,        \* Spec: <<d>> when rglob is suspended after yielding under d
    stored,        \* Spec: stored_content of process_and_store_content
    result,        \* Spec: what extract_content returned
    callNo,        \* Spec: number of extract_content calls started
    delNo,         \* Spec: number of delete_song_by_id calls made
    faults,        \* Spec: number of injected failures
    hist,          \* Spec: record of what the current and previous call did
    iniFile,       \* SpecParse: the song.ini handed to parse_song_ini
    parseRet,      \* SpecParse: what parse_song_ini returned (<<>> before the call)
    beat_times,    \* SpecChart: the beat times, in microseconds
    syncTrack,     \* SpecChart: the lines of [SyncTrack] (<<>> before the call)
    locals,        \* the arguments and local variables of the function run
    ret            \* <<what the function returned>> (<<>> before it returns)

vars == <<db, nextId, hasUnique, cpc, ctriple, cret, pending, dirs, files,
          pathlibRaises, pc, input, ctype, scratch, stack, resume, stored,
          result, callNo, delNo, faults, hist, iniFile, parseRet, beat_times,
          syncTrack, locals, ret>>

storeVars == <<cpc, ctriple, cret, pending>>
fsVars    == <<dirs, files>>
callVars  == <<pc, input, ctype, scratch, stack, resume, stored, result,
               callNo, delNo, faults, hist>>
pureVars  == <<iniFile, parseRet, beat_times, syncTrack, locals, ret>>

(***************************************************************************)
(* Strings                                                                 *)
(***************************************************************************)
IsSpace(c) == c = " "

RECURSIVE LStrip(_)
LStrip(s) == IF s # <<>> /\ IsSpace(Head(s)) THEN LStrip(Tail(s)) ELSE s

RECURSIVE RStrip(_)
RStrip(s) ==
    IF s # <<>> /\ IsSpace(s[Len(s)]) THEN RStrip(SubSeq(s, 1, Len(s) - 1)) ELSE s

\* str.strip()
Strip(s) == RStrip(LStrip(s))

\* Case folding of one character; the alphabet has the letters t/T and u/U.
LowerChar(c) == IF c = "T" THEN "t" ELSE IF c = "U" THEN "u" ELSE c

Lower(s) == [i \in 1..Len(s) |-> LowerChar(s[i])]

(***************************************************************************)
(* The songs table                                                         *)
(***************************************************************************)
Triple(title, artist, album) == [title |-> title, artist |-> artist, album |-> album]

RowTriple(r) == Triple(r.title, r.artist, r.album)

\* WHERE title = %s AND artist = %s AND album = %s, compared without case
\* folding (a plausible bug: a case-insensitive comparison).
SqlMatchFolded(r, t) ==
    /\ Lower(r.title) = Lower(t.title)
    /\ Lower(r.artist) = Lower(t.artist)
    /\ Lower(r.album) = Lower(t.album)

\* WHERE title = %s AND artist = %s AND album = %s
SqlMatch(r, t) ==
    /\ r.title = t.title
    /\ r.artist = t.artist
    /\ r.album = t.album

\* SELECT id FROM songs WHERE ...: the ids of the committed rows that match.
SelectIds(rows, t) == {r.id : r \in {x \in rows : SqlMatch(x, t)}}

\* The row INSERT INTO songs (...) VALUES (...) RETURNING id adds.
NewRow(id, t, path, meta) ==
    [id |-> id, title |-> t.title, artist |-> t.artist, album |-> t.album,
     file_path |-> path, metadata |-> meta]

(***************************************************************************)
(* song.ini descriptors.  A descriptor is what the file holds: whether it  *)
(* can be read and parsed, whether it has a [song] section, the keys of    *)
(* that section and their raw values.                                      *)
(***************************************************************************)
Keys == {"name", "artist", "album", "genre", "custom"}

\* The optional keys of OPTIONAL_FIELDS that the pool of descriptors uses.
OPTIONAL_FIELDS == {"genre"}

Descriptor(readable, hasSong, present, name, artist, album, genre, custom) ==
    [readable |-> readable, hasSong |-> hasSong, present |-> present,
     opts |-> [k \in Keys |->
                 CASE k = "name" -> name
                   [] k = "artist" -> artist
                   [] k = "album" -> album
                   [] k = "genre" -> genre
                   [] OTHER -> custom]]

Required == {"name", "artist", "album"}

DGood    == Descriptor(TRUE, TRUE, Required, <<"t">>, <<"r">>, <<"m">>, <<>>, <<>>)
DUpper   == Descriptor(TRUE, TRUE, Required, <<"T">>, <<"r">>, <<"m">>, <<>>, <<>>)
DOther   == Descriptor(TRUE, TRUE, Required, <<"u">>, <<"r">>, <<"m">>, <<>>, <<>>)
DPadded  == Descriptor(TRUE, TRUE, Required \cup {"genre", "custom"},
                       <<" ", "t", " ">>, <<"r">>, <<"m">>, <<" ", "g">>, <<"c">>)
DNoAlbum == Descriptor(TRUE, TRUE, {"name", "artist"}, <<"u">>, <<"r">>, <<>>, <<>>, <<>>)
DBlank   == Descriptor(TRUE, TRUE, Required, <<" ">>, <<"r">>, <<"m">>, <<>>, <<>>)
DNoSong  == Descriptor(TRUE, FALSE, {}, <<>>, <<>>, <<>>, <<>>, <<>>)
\* name = 5%
DPercent == Descriptor(TRUE, TRUE, Required, <<"5", "%">>, <<"r">>, <<"m">>, <<>>, <<>>)
\* A file that is no descriptor (notes.mid, an image, the uploaded file).
Blob     == Descriptor(FALSE, FALSE, {}, <<>>, <<>>, <<>>, <<>>, <<>>)

\* The descriptors of the pool, by name: a file holds the name.
DescriptorOf(n) ==
    CASE n = "good" -> DGood
      [] n = "upper" -> DUpper
      [] n = "other" -> DOther
      [] n = "padded" -> DPadded
      [] n = "noalbum" -> DNoAlbum
      [] n = "blank" -> DBlank
      [] n = "nosong" -> DNoSong
      [] n = "percent" -> DPercent
      [] OTHER -> Blob

\* The value of key k as read_file keeps it: configparser strips the value
\* when it reads the file.
RawValue(d, k) == Strip(d.opts[k])

\* ConfigParser's BasicInterpolation of a value: "%%" stands for "%", any
\* other "%" raises InterpolationSyntaxError (ok = FALSE).  The alphabet
\* has no "(", so "%(key)s" references do not occur.
RECURSIVE Interpolate(_)
Interpolate(s) ==
    IF s = <<>> THEN [ok |-> TRUE, value |-> <<>>]
    ELSE IF Head(s) # "%"
    THEN LET r == Interpolate(Tail(s))
         IN  [ok |-> r.ok, value |-> IF r.ok THEN <<Head(s)>> \o r.value ELSE <<>>]
    ELSE IF Len(s) >= 2 /\ s[2] = "%"
    THEN LET r == Interpolate(SubSeq(s, 3, Len(s)))
         IN  [ok |-> r.ok, value |-> IF r.ok THEN <<"%">> \o r.value ELSE <<>>]
    ELSE [ok |-> FALSE, value |-> <<>>]

\* config.get("song", k, fallback=None) for a key the section has.
ConfigGet(d, k) == Interpolate(RawValue(d, k))

\* config.get raises for key k.
GetRaises(d, k) == k \in d.present /\ ~ConfigGet(d, k).ok

\* `not name`: the key is absent (fallback None) or its value is empty.
Falsy(d, k) == k \notin d.present \/ ConfigGet(d, k).value = <<>>

\* return {}
SkipParse ==
    [ok |-> FALSE, raises |-> FALSE, title |-> <<>>, artist |-> <<>>,
     album |-> <<>>, metadata |-> [k \in {} |-> <<>>]]

\* An exception leaves parse_song_ini: only read_file is inside its try.
RaiseParse == [SkipParse EXCEPT !.raises = TRUE]

\* parse_song_ini that copies every key of the section into the metadata
\* (a plausible bug: the filter on OPTIONAL_FIELDS dropped).
ParseSongIniAllKeys(d) ==
    IF ~d.readable \/ ~d.hasSong THEN SkipParse
    ELSE IF GetRaises(d, "name") \/ GetRaises(d, "artist") \/ GetRaises(d, "album")
    THEN RaiseParse
    ELSE IF Falsy(d, "name") \/ Falsy(d, "artist") \/ Falsy(d, "album") THEN SkipParse
    ELSE IF \E k \in Keys : GetRaises(d, k) THEN RaiseParse
    ELSE [ok |-> TRUE, raises |-> FALSE,
          title |-> Strip(ConfigGet(d, "name").value),
          artist |-> Strip(ConfigGet(d, "artist").value),
          album |-> Strip(ConfigGet(d, "album").value),
          metadata |-> [k \in d.present |-> Strip(ConfigGet(d, k).value)]]

parse_song_ini(d) ==
    IF ~d.readable \/ ~d.hasSong THEN SkipParse
    ELSE IF GetRaises(d, "name") \/ GetRaises(d, "artist") \/ GetRaises(d, "album")
    THEN RaiseParse
    ELSE IF Falsy(d, "name") \/ Falsy(d, "artist") \/ Falsy(d, "album") THEN SkipParse
    ELSE IF \E k \in OPTIONAL_FIELDS : GetRaises(d, k) THEN RaiseParse
    ELSE [ok |-> TRUE, raises |-> FALSE,
          title |-> Strip(ConfigGet(d, "name").value),
          artist |-> Strip(ConfigGet(d, "artist").value),
          album |-> Strip(ConfigGet(d, "album").value),
          metadata |-> [k \in OPTIONAL_FIELDS \cap d.present |->
                          Strip(ConfigGet(d, k).value)]]

(***************************************************************************)
(* The file system: a set of directories and a set of regular files, each  *)
(* file with its data and the call that uploaded it.                       *)
(***************************************************************************)
Seg(s) == <<s>>

Last(p) == p[Len(p)]

Front(p) == SubSeq(p, 1, Len(p) - 1)

IsPrefix(p, q) == Len(p) <= Len(q) /\ SubSeq(q, 1, Len(p)) = p

\* The directory p and its ancestors (mkdir(parents=True, exist_ok=True)).
Prefixes(p) == {SubSeq(p, 1, i) : i \in 1..Len(p)}

\* q, which lies under src, after src was renamed to dst.
Rebase(src, dst, q) == dst \o SubSeq(q, Len(src) + 1, Len(q))

TmpDir == <<Seg("tmp")>>

\* CONTENT_BASE_DIR
ContentBase == <<Seg("content")>>

\* get_final_directory(content_type)
get_final_directory(content_type) == Append(ContentBase, Seg(content_type))

\* f"{title}_{uuid4().hex[:8]}" under artist_dir
FinalDir(artist_dir, title, tok) == Append(artist_dir, title \o <<"_", tok>>)

\* The tokens uuid4().hex[:8] can give that matter: those of the folders
\* of this title that exist, and one that no folder has (the tokens no
\* folder has are interchangeable, the smallest stands for all of them).
TokenNumbers == 1..(2 * MaxCalls + 1)

Tokens(D, artist_dir, title) ==
    LET used == {n \in TokenNumbers : FinalDir(artist_dir, title, ToString(n)) \in D}
        fresh == CHOOSE n \in TokenNumbers \ used : \A m \in TokenNumbers \ used : n <= m
    IN  {ToString(n) : n \in used \cup {fresh}}

\* temp_extract_dir = gettempdir() / f"extract_{uuid4().hex[:6]}".  Calls
\* that do not overlap never meet each other's directory: one name.
ScratchTokens == {"s"}

ScratchDir(tok) == Append(TmpDir, <<"extract_", tok>>)

\* The finally clause without its rmtree (a plausible bug: the cleanup
\* skipped).
RmTreeDirsSkipped(D, path) == D

\* shutil.rmtree(path, ignore_errors=True)
RmTreeDirs(D, path) == {d \in D : ~IsPrefix(path, d)}

RmTreeFiles(F, path) == {f \in F : ~IsPrefix(path, f.path)}

\* os.path.join(base, name): an absolute name (leading empty segment)
\* replaces the base.
Join(base, segs) ==
    IF segs # <<>> /\ Head(segs) = Seg("") THEN Tail(segs) ELSE base \o segs

\* The path the operating system resolves p to.
RECURSIVE Resolve(_)
Resolve(p) ==
    IF p = <<>> THEN <<>>
    ELSE LET r == Resolve(Front(p))
             s == Last(p)
         IN  IF s = Seg("..") THEN (IF r = <<>> THEN <<>> ELSE Front(r))
             ELSE IF s = Seg(".") \/ s = Seg("") THEN r
             ELSE Append(r, s)

\* A member name used as it is in the archive (a plausible bug: extraction
\* without the library's sanitisation).
SanitizeNot(segs) == segs

\* ZipFile.extractall / RarFile.extractall: the member name without its
\* empty, "." and ".." components (so without a leading slash).
Sanitize(segs) ==
    SelectSeq(segs, LAMBDA s : s \notin {Seg(""), Seg("."), Seg("..")})

\* extractall of the first n members into base: the file system after it
\* and the resolved paths it wrote.
RECURSIVE ExtractAll(_, _, _, _, _, _)
ExtractAll(D, F, entries, n, base, origin) ==
    IF n = 0 THEN [dirs |-> D, files |-> F, written |-> {}]
    ELSE LET before == ExtractAll(D, F, entries, n - 1, base, origin)
             e == entries[n]
             target == Resolve(Join(base, Sanitize(e.segs)))
         IN  [dirs |-> before.dirs \cup Prefixes(Front(target)),
              files |-> {f \in before.files : f.path # target}
                          \cup {[path |-> target, data |-> e.data, origin |-> origin]},
              written |-> before.written \cup {target}]

\* shutil.move(src, dst) of a directory: into dst when dst is an existing
\* directory (shutil.Error when dst/basename(src) exists), else src is
\* renamed to dst.  fault: the operating system refuses the move.
ShutilMove(D, F, src, dst, fault) ==
    LET real == IF dst \in D THEN Append(dst, Last(src)) ELSE dst
    IN  IF fault \/ (dst \in D /\ (real \in D \/ \E f \in F : f.path = real))
        THEN [ok |-> FALSE, dirs |-> D, files |-> F, real |-> real]
        ELSE [ok |-> TRUE,
              dirs |-> {d \in D : ~IsPrefix(src, d)}
                         \cup {Rebase(src, real, d) : d \in {x \in D : IsPrefix(src, x)}},
              files |-> {f \in F : ~IsPrefix(src, f.path)}
                          \cup {[f EXCEPT !.path = Rebase(src, real, f.path)] :
                                   f \in {x \in F : IsPrefix(src, x.path)}},
              real |-> real]

\* shutil.move of a regular file that refuses a destination that exists (a
\* plausible bug: no overwrite).
MoveFileNoReplace(D, F, src, dst, fault) ==
    LET real == IF dst \in D THEN Append(dst, Last(src)) ELSE dst
        moved == {f \in F : f.path = src}
    IN  IF fault \/ moved = {} \/ real \in D \/ \E f \in F : f.path = real
        THEN [ok |-> FALSE, dirs |-> D, files |-> F, real |-> real]
        ELSE [ok |-> TRUE, dirs |-> D,
              files |-> {f \in F : f.path # src} \cup {[f EXCEPT !.path = real] : f \in moved},
              real |-> real]

\* shutil.move(file_path, dst_path) of a regular file: a file at dst is
\* replaced, a directory at dst receives the file.
MoveFile(D, F, src, dst, fault) ==
    LET real == IF dst \in D THEN Append(dst, Last(src)) ELSE dst
        moved == {f \in F : f.path = src}
    IN  IF fault \/ moved = {} \/ real \in D
        THEN [ok |-> FALSE, dirs |-> D, files |-> F, real |-> real]
        ELSE [ok |-> TRUE, dirs |-> D,
              files |-> {f \in F : f.path # src /\ f.path # real}
                          \cup {[f EXCEPT !.path = real] : f \in moved},
              real |-> real]

(***************************************************************************)
(* Path.rglob("song.ini"): a lazy depth-first walk.  It yields a directory *)
(* to the name match and lists the directory's children only when it       *)
(* is resumed, after the loop body ran.                                    *)
(***************************************************************************)
Ini == Seg("song.ini")

HasIni(F, d) == \E f \in F : f.path = Append(d, Ini)

IniData(F, d) == (CHOOSE f \in F : f.path = Append(d, Ini)).data

\* The order in which scandir lists names: fixed for a file system.
Rank(s) == IF s = Seg("A") THEN 1 ELSE IF s = Seg("B") THEN 2 ELSE 3

Children(D, d) == {c \in D : Len(c) = Len(d) + 1 /\ IsPrefix(d, c)}

RECURSIVE InScanOrder(_)
InScanOrder(S) ==
    IF S = {} THEN <<>>
    ELSE LET c == CHOOSE x \in S : \A y \in S : Rank(Last(x)) <= Rank(Last(y))
         IN  <<c>> \o InScanOrder(S \ {c})

\* The walk from its state (todo, res) to its next event: "yield" with the
\* directory holding a song.ini, "done", or "raise" (FileNotFoundError from
\* scandir of a directory that the loop body moved away; Python <= 3.11
\* lets it through, later versions ignore it).
RECURSIVE RglobNext(_, _, _, _, _)
RglobNext(D, F, todo, res, raises) ==
    IF res # <<>>
    THEN IF res[1] \in D
         THEN RglobNext(D, F, InScanOrder(Children(D, res[1])) \o todo, <<>>, raises)
         ELSE IF raises
              THEN [st |-> "raise", dir |-> <<>>, todo |-> todo]
              ELSE RglobNext(D, F, todo, <<>>, raises)
    ELSE IF todo = <<>>
         THEN [st |-> "done", dir |-> <<>>, todo |-> <<>>]
         ELSE IF HasIni(F, Head(todo))
              THEN [st |-> "yield", dir |-> Head(todo), todo |-> Tail(todo)]
              ELSE RglobNext(D, F, Tail(todo), <<Head(todo)>>, raises)

(***************************************************************************)
(* The uploads handed to extract_content and what a call records.          *)
(***************************************************************************)
\* A member of an archive: the components of its name ("/etc/x" is
\* <<"", "etc", "x">>) and the name of the descriptor (or blob) it holds.
Member(segs, data) == [segs |-> segs, data |-> data]

\* failAt: the member at which reading the archive fails (0: none);
\* rar: what opening a .rar raises.
Upload(base, ext, entries, failAt, rar) ==
    [name |-> <<base, ext>>, ext |-> ext, entries |-> entries,
     failAt |-> failAt, rar |-> rar]

Zip(entries) == Upload("up", ".zip", entries, 0, "ok")

A == Seg("A")

B == Seg("B")

Notes == Seg("notes.mid")

\* song.ini at the root of the archive
ZRoot == Zip(<<Member(<<Ini>>, "good")>>)
\* two song folders whose descriptors give the same triple after trimming
ZDup == Zip(<<Member(<<A, Ini>>, "good"), Member(<<A, Notes>>, "blob"),
              Member(<<B, Ini>>, "padded")>>)
\* a song folder inside a song folder
ZNested == Zip(<<Member(<<A, Ini>>, "good"), Member(<<A, B, Ini>>, "other")>>)
\* two song folders whose triples differ in letter case only
ZCase == Zip(<<Member(<<A, Ini>>, "upper"), Member(<<B, Ini>>, "good")>>)
\* descriptors that are skipped, one of them above a valid one, and one
\* that makes parse_song_ini raise
ZSkip == Zip(<<Member(<<A, Ini>>, "noalbum"), Member(<<A, B, Ini>>, "other"),
               Member(<<B, Ini>>, "blank"), Member(<<B, A, Ini>>, "percent")>>)
\* no usable descriptor
ZNoSong == Zip(<<Member(<<A, Notes>>, "blob"), Member(<<B, Ini>>, "nosong")>>)
\* members with an absolute name and with a parent-directory segment
ZUnsafe == Zip(<<Member(<<Seg(""), Seg("etc"), Seg("x")>>, "blob"),
                 Member(<<Seg(".."), Seg("evil")>>, "blob"),
                 Member(<<A, Seg(".."), Seg(".."), Ini>>, "nosong")>>)
RUnsafe == Upload("up", ".rar", ZUnsafe.entries, 0, "ok")
\* an archive whose second member cannot be read
ZCorrupt == Upload("up", ".zip", ZCase.entries, 2, "ok")
RNeedFirstVolume == Upload("up", ".rar", ZRoot.entries, 0, "NeedFirstVolume")
RCannotExec == Upload("up", ".rar", ZRoot.entries, 0, "RarCannotExec")
Png == Upload("bg", ".png", <<>>, 0, "ok")

Archives == {ZRoot, ZDup, ZNested, ZCase, ZSkip, ZNoSong, ZUnsafe, RUnsafe,
             ZCorrupt, RNeedFirstVolume, RCannotExec}

\* The calls of extract_content(file_path, content_type).
Requests ==
    [input : Archives, ctype : {"songs"}]
      \cup [input : {ZNoSong, Png}, ctype : {"backgrounds"}]
      \cup [input : {Png}, ctype : {"songs"}]

\* What the last iteration of the loop of process_and_store_content did.
NoStore ==
    [kind |-> "none", triple |-> Triple(<<>>, <<>>, <<>>), src |-> <<>>,
     dst |-> <<>>, real |-> <<>>, moved |-> FALSE, dbFault |-> FALSE, ret |-> 0,
     preDb |-> {}, preDirs |-> {}, preFiles |-> {}]

NoResult == [kind |-> "none", items |-> <<>>, error |-> ""]

\* The call before the current one.
NoPrev ==
    [valid |-> FALSE, input |-> Png, ctype |-> "", kind |-> "none", ids |-> {},
     faulty |-> FALSE, response |-> NoResult, raised |-> FALSE]

\* written: the paths the extraction of this call wrote; faultDirs: the song
\* folders whose move or insert failed in this call; dbStart: the table
\* when the call began; deleted: delete_song_by_id ran since the previous
\* call returned.
\* The last delete_song_by_id call since the previous extract_content call.
NoDelete ==
    [valid |-> FALSE, song_id |-> 0, ret |-> FALSE, status |-> 0, fault |-> FALSE,
     preDb |-> {}, preDirs |-> {}, preFiles |-> {}]

NoHist ==
    [written |-> {}, faultDirs |-> {}, dbStart |-> {}, deleted |-> FALSE,
     prev |-> NoPrev, last |-> NoStore, del |-> NoDelete]

(***************************************************************************)
(* SpecStore: add_content_to_db called by NumCallers concurrent requests.  *)
(* Each call has its own pooled connection (READ COMMITTED): its SELECT    *)
(* sees committed rows only.                                               *)
(***************************************************************************)
Callers == 1..NumCallers

StoreTriples ==
    { Triple(<<"t">>, <<"r">>, <<"m">>), Triple(<<"T">>, <<"r">>, <<"m">>) }

\* final_dir of the caller: f"{title}_{uuid}" under the artist's directory.
StorePath(c) ==
    << <<"content">>, <<"songs">>, ctriple[c].artist,
       ctriple[c].title \o <<"_", ToString(c)>> >>

\* Lines 61-68: the SELECT and the early return of the existing id.
CallSelect(c) ==
    /\ cpc[c] = "select"
    /\ \/ /\ SelectIds(db, ctriple[c]) = {}
          /\ cpc' = [cpc EXCEPT ![c] = "insert"]
          /\ cret' = cret
       \/ /\ \E id \in SelectIds(db, ctriple[c]) :
                cret' = [cret EXCEPT ![c] = id]
          /\ cpc' = [cpc EXCEPT ![c] = "done"]
    /\ UNCHANGED <<db, nextId, hasUnique, ctriple, pending>>
    /\ UNCHANGED <<fsVars, pathlibRaises, callVars, pureVars>>

\* Another connection holds an uncommitted row with the same key: under a
\* unique index the INSERT waits for that transaction to end.
BlockedByPending(c) ==
    /\ hasUnique
    /\ \E o \in Callers \ {c} : \E r \in pending[o] : RowTriple(r) = ctriple[c]

\* Lines 70-77: the INSERT ... RETURNING id.  Under a unique index a
\* committed row with the same key makes it raise (line 82: return -1).
CallInsert(c) ==
    /\ cpc[c] = "insert"
    /\ ~BlockedByPending(c)
    /\ nextId' = nextId + 1
    /\ \/ /\ hasUnique
          /\ \E r \in db : RowTriple(r) = ctriple[c]
          /\ cret' = [cret EXCEPT ![c] = -1]
          /\ cpc' = [cpc EXCEPT ![c] = "done"]
          /\ pending' = pending
       \/ /\ ~(hasUnique /\ \E r \in db : RowTriple(r) = ctriple[c])
          /\ pending' = [pending EXCEPT
                ![c] = {NewRow(nextId, ctriple[c], StorePath(c), {})}]
          /\ cpc' = [cpc EXCEPT ![c] = "commit"]
          /\ cret' = cret
    /\ UNCHANGED <<db, hasUnique, ctriple>>
    /\ UNCHANGED <<fsVars, pathlibRaises, callVars, pureVars>>

\* Lines 77-81: conn.commit() and the return of the new id.
CallCommit(c) ==
    /\ cpc[c] = "commit"
    /\ db' = db \cup pending[c]
    /\ \E r \in pending[c] : cret' = [cret EXCEPT ![c] = r.id]
    /\ pending' = [pending EXCEPT ![c] = {}]
    /\ cpc' = [cpc EXCEPT ![c] = "done"]
    /\ UNCHANGED <<nextId, hasUnique, ctriple>>
    /\ UNCHANGED <<fsVars, pathlibRaises, callVars, pureVars>>

IdleCall ==
    /\ pc = "idle"
    /\ input = Png
    /\ ctype = ""
    /\ scratch = <<>>
    /\ stack = <<>>
    /\ resume = <<>>
    /\ stored = <<>>
    /\ result = NoResult
    /\ callNo = 0
    /\ delNo = 0
    /\ faults = 0
    /\ hist = NoHist

\* No function of the other specifications is being run.
IdleFn ==
    /\ locals = <<>>
    /\ ret = <<>>

\* parse_song_ini and generate_notes_chart not called.
IdlePure ==
    /\ iniFile = Blob
    /\ parseRet = <<>>
    /\ beat_times = <<>>
    /\ syncTrack = <<>>
    /\ IdleFn

InitStore ==
    /\ db = {}
    /\ nextId = 1
    /\ hasUnique \in BOOLEAN
    /\ cpc = [c \in Callers |-> "select"]
    /\ ctriple \in [Callers -> StoreTriples]
    /\ cret = [c \in Callers |-> 0]
    /\ pending = [c \in Callers |-> {}]
    /\ dirs = {}
    /\ files = {}
    /\ pathlibRaises = FALSE
    /\ IdleCall
    /\ IdlePure

NextStore == \E c \in Callers : CallSelect(c) \/ CallInsert(c) \/ CallCommit(c)

SpecStore == InitStore /\ [][NextStore]_vars

\* C1: concurrent add_content_to_db calls with the identical triple insert
\* exactly one record with that triple and all return the same identifier;
\* no two records share a triple.
C1_AtomicDedup ==
    /\ \A r1, r2 \in db : RowTriple(r1) = RowTriple(r2) => r1 = r2
    /\ \A c1, c2 \in Callers :
          (cpc[c1] = "done" /\ cpc[c2] = "done" /\ ctriple[c1] = ctriple[c2])
             => /\ cret[c1] = cret[c2]
                /\ Cardinality({r \in db : RowTriple(r) = ctriple[c1]}) = 1

(***************************************************************************)
(* Spec: extract_content calls made one after another.                     *)
(***************************************************************************)
ErrorResult(msg) == [kind |-> "error", items |-> <<>>, error |-> msg]

ListResult(items) == [kind |-> "list", items |-> items, error |-> ""]

MessageResult(file) == [kind |-> "message", items |-> <<file>>, error |-> ""]

\* file_path: where the caller saved the upload.
UploadPath(in) == Append(TmpDir, in.name)

\* add_content_to_db that inserts without looking for the triple (a
\* plausible bug: the duplicate check dropped).
AddContentToDbAlways(rows, nid, t, path, meta, pick, fault) ==
    IF fault THEN [db |-> rows, nextId |-> nid, id |-> -1]
    ELSE [db |-> rows \cup {NewRow(nid, t, path, meta)}, nextId |-> nid + 1, id |-> nid]

\* add_content_to_db that points the existing record at the new folder (a
\* plausible bug: an upsert).
AddContentToDbUpsert(rows, nid, t, path, meta, pick, fault) ==
    IF fault THEN [db |-> rows, nextId |-> nid, id |-> -1]
    ELSE IF pick # 0
    THEN [db |-> {IF r.id = pick THEN [r EXCEPT !.file_path = path] ELSE r : r \in rows},
          nextId |-> nid, id |-> pick]
    ELSE [db |-> rows \cup {NewRow(nid, t, path, meta)}, nextId |-> nid + 1, id |-> nid]

\* add_content_to_db: pick is the id fetchone() returns (0: no row),
\* fault an exception raised by the connection or a statement.
AddContentToDb(rows, nid, t, path, meta, pick, fault) ==
    IF fault THEN [db |-> rows, nextId |-> nid, id |-> -1]
    ELSE IF pick # 0 THEN [db |-> rows, nextId |-> nid, id |-> pick]
    ELSE [db |-> rows \cup {NewRow(nid, t, path, meta)}, nextId |-> nid + 1, id |-> nid]

\* fetchone() after the SELECT of lines 61-65.
Fetched(rows, t) == IF SelectIds(rows, t) = {} THEN {0} ELSE SelectIds(rows, t)

\* What can happen to the move and the insert of one descriptor.
Outcomes == IF faults < MaxFaults THEN {"ok", "move fails", "db fails"} ELSE {"ok"}

\* extract_content returns res: the finally clause removes the scratch tree.
Return(res, D, F) ==
    /\ result' = res
    /\ dirs' = RmTreeDirs(D, scratch)
    /\ files' = RmTreeFiles(F, scratch)
    /\ pc' = "returned"
    /\ stack' = <<>>
    /\ resume' = <<>>
    /\ stored' = <<>>

\* Lines 79-86: an archive upload; the scratch directory is made.
BeginArchive ==
    /\ pc = "idle"
    /\ callNo < MaxCalls
    /\ \E rq \in Requests, tok \in ScratchTokens :
          /\ rq.input.ext \in {".zip", ".rar"}
          /\ input' = rq.input
          /\ ctype' = rq.ctype
          /\ scratch' = ScratchDir(tok)
          /\ dirs' = dirs \cup Prefixes(ScratchDir(tok))
          /\ files' = {f \in files : f.path # UploadPath(rq.input)}
                        \cup {[path |-> UploadPath(rq.input), data |-> "blob",
                               origin |-> callNo + 1]}
    /\ callNo' = callNo + 1
    /\ pc' = "extract"
    /\ hist' = [hist EXCEPT !.written = {}, !.faultDirs = {}, !.dbStart = db,
                            !.last = NoStore, !.del = NoDelete]
    /\ UNCHANGED <<db, nextId, hasUnique, stack, resume, stored, result, delNo,
                   faults, pathlibRaises, storeVars, pureVars>>

\* Lines 96-104 and 110-111: a file that is no archive is moved to the
\* folder of its content type, unless the content type is songs.
BeginDirect ==
    /\ pc = "idle"
    /\ callNo < MaxCalls
    /\ \E rq \in Requests, tok \in ScratchTokens, out \in Outcomes \ {"db fails"} :
          LET up == [path |-> UploadPath(rq.input), data |-> "blob", origin |-> callNo + 1]
              F0 == {f \in files : f.path # up.path} \cup {up}
              final == get_final_directory(rq.ctype)
              D0 == dirs \cup Prefixes(final)
              mv == MoveFile(D0, F0, up.path, Append(final, rq.input.name),
                             out = "move fails")
          IN  /\ rq.input.ext \notin {".zip", ".rar"}
              /\ rq.ctype = "songs" => out = "ok"
              /\ input' = rq.input
              /\ ctype' = rq.ctype
              /\ scratch' = ScratchDir(tok)
              /\ faults' = IF out = "ok" THEN faults ELSE faults + 1
              /\ IF rq.ctype = "songs"
                 THEN /\ result' = ErrorResult("Please upload a .zip or .rar file containing a song.ini")
                      /\ dirs' = RmTreeDirs(D0, ScratchDir(tok))
                      /\ files' = RmTreeFiles(F0, ScratchDir(tok))
                 ELSE IF mv.ok
                 THEN /\ result' = MessageResult(mv.real)
                      /\ dirs' = RmTreeDirs(mv.dirs, ScratchDir(tok))
                      /\ files' = RmTreeFiles(mv.files, ScratchDir(tok))
                 ELSE /\ result' = ErrorResult("exception")
                      /\ dirs' = RmTreeDirs(D0, ScratchDir(tok))
                      /\ files' = RmTreeFiles(F0, ScratchDir(tok))
    /\ callNo' = callNo + 1
    /\ pc' = "returned"
    /\ hist' = [hist EXCEPT !.written = {},
                            !.faultDirs = IF faults' = faults THEN {} ELSE {TmpDir},
                            !.dbStart = db, !.last = NoStore, !.del = NoDelete]
    /\ UNCHANGED <<db, nextId, hasUnique, stack, resume, stored, delNo,
                   pathlibRaises, storeVars, pureVars>>

\* extract_archive that unpacks a continuation volume before it reports it
\* (a plausible bug: the volume check after extractall).
ExtractArchivePartial(in, D, F, base, origin) ==
    LET n == IF in.failAt > 0 THEN in.failAt - 1 ELSE Len(in.entries)
        ex == ExtractAll(D, F, in.entries, n, base, origin)
        none == [dirs |-> D, files |-> F, written |-> {}]
    IN  IF in.ext = ".zip" \/ in.ext = ".rar"
        THEN IF in.ext = ".rar" /\ in.rar = "NeedFirstVolume"
             THEN [error |-> "Multi-part RAR archives are not supported", fs |-> ex]
             ELSE IF in.ext = ".rar" /\ in.rar = "RarCannotExec"
             THEN [error |-> "RAR extraction failed. Ensure 'unrar' is installed",
                   fs |-> none]
             ELSE IF in.failAt > 0 THEN [error |-> "exception", fs |-> ex]
             ELSE [error |-> "", fs |-> ex]
        ELSE [error |-> "Unsupported file format", fs |-> none]

\* extract_archive(file_path, extract_dir, file_ext): the error it returns
\* ("" for {"success": True}) and the file system after it.  RarFile()
\* raises NeedFirstVolume when it opens the archive, before extractall;
\* an exception of extractall (failAt) leaves the members before it.
extract_archive(in, D, F, base, origin) ==
    LET n == IF in.failAt > 0 THEN in.failAt - 1 ELSE Len(in.entries)
        ex == ExtractAll(D, F, in.entries, n, base, origin)
        none == [dirs |-> D, files |-> F, written |-> {}]
    IN  IF in.ext = ".zip" \/ in.ext = ".rar"
        THEN IF in.ext = ".rar" /\ in.rar = "NeedFirstVolume"
             THEN [error |-> "Multi-part RAR archives are not supported", fs |-> none]
             ELSE IF in.ext = ".rar" /\ in.rar = "RarCannotExec"
             THEN [error |-> "RAR extraction failed. Ensure 'unrar' is installed",
                   fs |-> none]
             ELSE IF in.failAt > 0 THEN [error |-> "exception", fs |-> ex]
             ELSE [error |-> "", fs |-> ex]
        ELSE [error |-> "Unsupported file format", fs |-> none]

\* Lines 89-94: the archive is unpacked into the scratch directory; on
\* success the upload is removed and process_and_store_content starts its
\* walk, on an error the error is returned.
ExtractArchive ==
    /\ pc = "extract"
    /\ LET r == extract_archive(input, dirs, files, scratch, callNo)
       IN  /\ hist' = [hist EXCEPT !.written = r.fs.written]
           /\ IF r.error # ""
              THEN Return(ErrorResult(r.error), r.fs.dirs, r.fs.files)
              ELSE /\ dirs' = r.fs.dirs
                   /\ files' = {f \in r.fs.files : f.path # UploadPath(input)}
                   /\ stack' = <<scratch>>
                   /\ pc' = "store"
                   /\ UNCHANGED <<result, resume, stored>>
    /\ UNCHANGED <<db, nextId, hasUnique, input, ctype, scratch, callNo, delNo,
                   faults, pathlibRaises, storeVars, pureVars>>

\* Lines 93-119: one iteration of the loop over rglob("song.ini").
ProcessDescriptor ==
    /\ pc = "store"
    /\ LET nx == RglobNext(dirs, files, stack, resume, pathlibRaises)
       IN  /\ nx.st = "yield"
           /\ stack' = nx.todo
           /\ resume' = <<nx.dir>>
           /\ LET parsed == parse_song_ini(DescriptorOf(IniData(files, nx.dir)))
                  t == Triple(parsed.title, parsed.artist, parsed.album)
                  artist_dir == Append(get_final_directory("songs"), parsed.artist)
                  D1 == dirs \cup Prefixes(artist_dir)
              IN  IF ~parsed.ok
                  THEN /\ ~parsed.raises
                       /\ UNCHANGED <<db, nextId, dirs, files, stored, faults>>
                       /\ hist' = [hist EXCEPT !.last = NoStore]
                  ELSE \E tok \in Tokens(D1, artist_dir, parsed.title), out \in Outcomes :
                         \E pick \in Fetched(db, t) :
                          LET final_dir == FinalDir(artist_dir, parsed.title, tok)
                              mv == ShutilMove(D1, files, nx.dir, final_dir,
                                               out = "move fails")
                              add == AddContentToDb(db, nextId, t, final_dir,
                                                    parsed.metadata, pick,
                                                    out = "db fails")
                              item == [id |-> add.id, title |-> parsed.title,
                                       artist |-> parsed.artist, album |-> parsed.album,
                                       folder_path |-> final_dir,
                                       metadata |-> parsed.metadata]
                              ev == [kind |-> "store", triple |-> t, src |-> nx.dir,
                                     dst |-> final_dir, real |-> mv.real,
                                     moved |-> mv.ok,
                                     dbFault |-> mv.ok /\ out = "db fails",
                                     ret |-> IF mv.ok THEN add.id ELSE 0,
                                     preDb |-> db, preDirs |-> dirs, preFiles |-> files]
                          IN  /\ dirs' = mv.dirs
                              /\ files' = mv.files
                              /\ db' = IF mv.ok THEN add.db ELSE db
                              /\ nextId' = IF mv.ok THEN add.nextId ELSE nextId
                              /\ stored' = IF mv.ok /\ add.id # -1
                                           THEN Append(stored, item) ELSE stored
                              /\ faults' = IF out = "ok" THEN faults ELSE faults + 1
                              /\ hist' = [hist EXCEPT
                                    !.last = ev,
                                    !.faultDirs = IF mv.ok /\ add.id # -1 THEN @
                                                  ELSE @ \cup {nx.dir}]
    /\ UNCHANGED <<hasUnique, pc, input, ctype, scratch, result, callNo, delNo,
                   pathlibRaises, storeVars, pureVars>>

\* Line 94 raises out of the loop (parse_song_ini is outside the try of
\* line 105); the handler of extract_content (lines 106-108) turns the
\* exception into an error result.
ParseRaise ==
    /\ pc = "store"
    /\ LET nx == RglobNext(dirs, files, stack, resume, pathlibRaises)
       IN  /\ nx.st = "yield"
           /\ parse_song_ini(DescriptorOf(IniData(files, nx.dir))).raises
    /\ Return(ErrorResult("exception"), dirs, files)
    /\ hist' = [hist EXCEPT !.last = NoStore]
    /\ UNCHANGED <<db, nextId, hasUnique, input, ctype, scratch, callNo, delNo,
                   faults, pathlibRaises, storeVars, pureVars>>

\* Line 93 raises out of the loop (FileNotFoundError from the walk); the
\* handler of lines 106-108 turns it into an error result.
RglobRaise ==
    /\ pc = "store"
    /\ RglobNext(dirs, files, stack, resume, pathlibRaises).st = "raise"
    /\ Return(ErrorResult("exception"), dirs, files)
    /\ hist' = [hist EXCEPT !.last = NoStore]
    /\ UNCHANGED <<db, nextId, hasUnique, input, ctype, scratch, callNo, delNo,
                   faults, pathlibRaises, storeVars, pureVars>>

\* Line 121: the walk is over, stored_content is returned.
StoreReturn ==
    /\ pc = "store"
    /\ RglobNext(dirs, files, stack, resume, pathlibRaises).st = "done"
    /\ Return(ListResult(stored), dirs, files)
    /\ hist' = [hist EXCEPT !.last = NoStore]
    /\ UNCHANGED <<db, nextId, hasUnique, input, ctype, scratch, callNo, delNo,
                   faults, pathlibRaises, storeVars, pureVars>>

\* The ids of the records a result reports.
ResultIds(res) == {res.items[i].id : i \in 1..(IF res.kind = "list" THEN Len(res.items) ELSE 0)}

\* upload_content, lines 75-88: what the route answers, given what
\* extract_content returned.  For songs the route then calls
\* process_and_store_content on temp_file_path, which is a regular file or
\* no longer exists: rglob yields nothing there and the call returns the
\* empty list.  A result that is not a dict raises ValueError, which the
\* except clause answers with an error dict.
upload_content(res, content_type) ==
    LET second == IF content_type = "songs" THEN ListResult(<<>>) ELSE res
    IN  IF second.kind = "list" THEN ErrorResult("Internal Server Error")
        ELSE second

\* The finally clause of upload_content without its os.remove (a plausible
\* bug: the temporary file left to the operating system).
RemoveTempFileNever(F, temp_file_path) == [files |-> F, raises |-> FALSE]

\* The finally clause of upload_content: os.remove(temp_file_path); the
\* FileNotFoundError of a file that is gone already is passed over.
RemoveTempFile(F, temp_file_path) ==
    IF \E f \in F : f.path = temp_file_path
    THEN [files |-> {f \in F : f.path # temp_file_path}, raises |-> FALSE]
    ELSE [files |-> F, raises |-> FALSE]

\* The route takes the result of extract_content, answers, and removes
\* what is left of the upload (routes/content_manager.py, lines 78-95).
Finish ==
    /\ pc = "returned"
    /\ pc' = "idle"
    /\ files' = RemoveTempFile(files, UploadPath(input)).files
    /\ hist' = [hist EXCEPT
          !.prev = [valid |-> TRUE, input |-> input, ctype |-> ctype,
                    kind |-> result.kind, ids |-> ResultIds(result),
                    faulty |-> hist.faultDirs # {},
                    response |-> upload_content(result, ctype),
                    raised |-> RemoveTempFile(files, UploadPath(input)).raises],
          !.written = {}, !.faultDirs = {}, !.dbStart = {},
          !.deleted = FALSE, !.last = NoStore]
    /\ input' = Png
    /\ ctype' = ""
    /\ scratch' = <<>>
    /\ result' = NoResult
    /\ UNCHANGED <<db, nextId, hasUnique, dirs, stack, resume, stored, callNo,
                   delNo, faults, pathlibRaises, storeVars, pureVars>>

\* delete_song_by_id without the SELECT of lines 44-49 (a plausible bug:
\* the DELETE issued and True returned whether or not the id exists).
DeleteSongByIdUnchecked(rows, song_id, fault) ==
    IF fault THEN [db |-> rows, ret |-> FALSE]
    ELSE [db |-> {r \in rows : r.id # song_id}, ret |-> TRUE]

\* delete_song_by_id(song_id): the table after it and what it returns.
\* fault: the connection or a statement raises (lines 56-58).
delete_song_by_id(rows, song_id, fault) ==
    IF fault THEN [db |-> rows, ret |-> FALSE]
    ELSE IF ~\E r \in rows : r.id = song_id THEN [db |-> rows, ret |-> FALSE]
    ELSE [db |-> {r \in rows : r.id # song_id}, ret |-> TRUE]

\* delete_song(song_id) of routes/database_explorer.py: the status of the
\* answer, given what delete_song_by_id returned.  HTTPException(404) is
\* raised inside the try block; it is an Exception, so the except clause
\* of line 36 catches it and raises HTTPException(500).
delete_song(success) ==
    LET raisedInTry == IF ~success THEN 404 ELSE 0
    IN  IF raisedInTry # 0 THEN 500 ELSE 200

\* A DELETE /songs/{song_id} request between two uploads, for an id that
\* is in the table or one that is not.
DeleteSong ==
    /\ pc = "idle"
    /\ delNo < MaxDeletes
    /\ delNo' = delNo + 1
    /\ \E song_id \in {r.id : r \in db} \cup {nextId}, out \in Outcomes \ {"move fails"} :
          LET d == delete_song_by_id(db, song_id, out = "db fails")
          IN  /\ db' = d.db
              /\ faults' = IF out = "ok" THEN faults ELSE faults + 1
              /\ hist' = [hist EXCEPT
                    !.deleted = TRUE,
                    !.del = [valid |-> TRUE, song_id |-> song_id, ret |-> d.ret,
                             status |-> delete_song(d.ret),
                             fault |-> out = "db fails", preDb |-> db,
                             preDirs |-> dirs, preFiles |-> files]]
    /\ UNCHANGED <<nextId, hasUnique, dirs, files, pc, input, ctype, scratch,
                   stack, resume, stored, result, callNo, pathlibRaises,
                   storeVars, pureVars>>

Init ==
    /\ db = {}
    /\ nextId = 1
    /\ hasUnique = FALSE
    /\ cpc = [c \in Callers |-> "done"]
    /\ ctriple = [c \in Callers |-> Triple(<<"t">>, <<"r">>, <<"m">>)]
    /\ cret = [c \in Callers |-> 0]
    /\ pending = [c \in Callers |-> {}]
    /\ dirs = {TmpDir, ContentBase}
    /\ files = {}
    /\ pathlibRaises \in BOOLEAN
    /\ IdleCall
    /\ IdlePure

Next ==
    \/ BeginArchive
    \/ BeginDirect
    \/ ExtractArchive
    \/ ProcessDescriptor
    \/ ParseRaise
    \/ RglobRaise
    \/ StoreReturn
    \/ Finish
    \/ DeleteSong

Spec == Init /\ [][Next]_vars

(***************************************************************************)
(* Properties of Spec                                                      *)
(***************************************************************************)
\* The rows of rows whose triple is exactly t (no case folding).
ExactRows(rows, t) ==
    {r \in rows : r.title = t.title /\ r.artist = t.artist /\ r.album = t.album}

\* The rows of rows whose triple is t up to letter case, and not exactly t.
CaseVariantRows(rows, t) ==
    {r \in rows : /\ Lower(r.title) = Lower(t.title)
                  /\ Lower(r.artist) = Lower(t.artist)
                  /\ Lower(r.album) = Lower(t.album)} \ ExactRows(rows, t)

\* C2: a store (the move and add_content_to_db of one descriptor) for a
\* triple that already has a record leaves the table as it was (no record
\* added, the existing record's path and metadata unchanged), leaves every
\* file under the existing record's path as it was, and, when the database
\* answers, returns the identifier of the existing record.
C2_DuplicateKeepsRecordAndFiles ==
    LET ev == hist.last
        existing == ExactRows(ev.preDb, ev.triple)
    IN  (ev.kind = "store" /\ existing # {}) =>
            /\ db = ev.preDb
            /\ \A r \in existing : \A f \in ev.preFiles :
                  IsPrefix(r.file_path, f.path) => f \in files
            /\ (ev.moved /\ ~ev.dbFault) => ev.ret \in {r.id : r \in existing}

\* C2 witness: a store for an existing triple returned the existing id
\* while the existing record's folder held files.
C2_Witness ==
    LET ev == hist.last
        existing == ExactRows(ev.preDb, ev.triple)
    IN  /\ ev.kind = "store"
        /\ ev.moved
        /\ ev.ret \in {r.id : r \in existing}
        /\ \E r \in existing : \E f \in ev.preFiles : IsPrefix(r.file_path, f.path)

\* An archive member whose name is absolute or has a parent-directory
\* segment.
UnsafeMember(e) == Head(e.segs) = Seg("") \/ \E i \in 1..Len(e.segs) : e.segs[i] = Seg("..")

HasUnsafeMember(in) == \E i \in 1..Len(in.entries) : UnsafeMember(in.entries[i])

\* C3: an archive with an unsafe member is rejected with UnsafeArchive and
\* none of its members is written.
C3_UnsafeArchiveRejected ==
    (pc \in {"store", "returned"} /\ HasUnsafeMember(input)) =>
        /\ hist.written = {}
        /\ pc = "returned" => (result.kind = "error" /\ result.error = "UnsafeArchive")

C5_ScratchRemovedOnReturn ==
    pc = "returned" =>
        /\ \A d \in dirs : ~IsPrefix(scratch, d)
        /\ \A f \in files : ~IsPrefix(scratch, f.path)

\* C5 witness: a call returned after its extraction had written files and
\* the move or the insert of a descriptor had failed.
C5_Witness ==
    /\ pc = "returned"
    /\ hist.written # {}
    /\ hist.faultDirs # {}

\* The members of an upload that are descriptors with valid required fields.
ValidMembers(in) ==
    {i \in 1..Len(in.entries) :
        /\ Last(in.entries[i].segs) = Ini
        /\ parse_song_ini(DescriptorOf(in.entries[i].data)).ok}

MemberTriple(in, i) ==
    LET p == parse_song_ini(DescriptorOf(in.entries[i].data))
    IN  Triple(p.title, p.artist, p.album)

\* The archive was read to its end.
Extracted(in) == in.ext \in {".zip", ".rar"} /\ in.failAt = 0 /\ in.rar = "ok"

\* C6: the list song ingestion returns has one entry per distinct triple
\* among the valid descriptors of the archive (no move or insert failing).
C6_OneEntryPerDistinctTriple ==
    (pc = "returned" /\ Extracted(input) /\ hist.faultDirs = {}) =>
        /\ result.kind = "list"
        /\ Len(result.items) =
              Cardinality({MemberTriple(input, i) : i \in ValidMembers(input)})

\* C7: ingesting the archive of the previous call again, with no delete in
\* between and no move or insert failing in either call, returns the same
\* identifiers as the previous call and inserts no record.
C7_ReingestionIsIdempotent ==
    (/\ pc = "returned"
     /\ input.ext \in {".zip", ".rar"}
     /\ hist.prev.valid
     /\ hist.prev.input = input
     /\ hist.prev.ctype = ctype
     /\ ~hist.deleted
     /\ ~hist.prev.faulty
     /\ hist.faultDirs = {}) =>
        /\ result.kind = hist.prev.kind
        /\ ResultIds(result) = hist.prev.ids
        /\ db = hist.dbStart

\* C7 witness: the second of two ingestions of one archive returned the
\* identifiers, at least one, that the first returned.
C7_Witness ==
    /\ pc = "returned"
    /\ hist.prev.valid
    /\ hist.prev.input = input
    /\ ~hist.deleted
    /\ ~hist.prev.faulty
    /\ hist.faultDirs = {}
    /\ ResultIds(result) # {}
    /\ ResultIds(result) = hist.prev.ids

\* The folder, in the scratch directory, of member i of the upload.
MemberDir(in, i) == scratch \o Front(Sanitize(in.entries[i].segs))

\* C8: every valid descriptor of an extracted archive whose own move and
\* insert did not fail has been stored when the ingestion returns, whatever
\* happened to the other descriptors.
C8_DescriptorsIndependent ==
    (pc = "returned" /\ Extracted(input)) =>
        \A i \in ValidMembers(input) :
            MemberDir(input, i) \notin hist.faultDirs =>
                ExactRows(db, MemberTriple(input, i)) # {}

C10_StorageFailureSurfaced ==
    (pc = "returned" /\ hist.faultDirs # {}) => result.kind = "error"
C12_NonArchiveRejected ==
    (pc = "returned" /\ input.ext \notin {".zip", ".rar"}) =>
        /\ result.kind = "error"
        /\ \A f \in files : IsPrefix(ContentBase, f.path) => f.origin # callNo

AssetTypes == {"backgrounds", "colors", "highways"}

\* C18: after the ingestion of an archive as an asset type, every regular
\* file of the archive is in the folder of that asset type.
C18_AssetArchiveFilesMoved ==
    (pc = "returned" /\ ctype \in AssetTypes /\ Extracted(input)) =>
        \A i \in 1..Len(input.entries) :
            \E f \in files :
                /\ IsPrefix(get_final_directory(ctype), f.path)
                /\ Last(f.path) = Last(input.entries[i].segs)
                /\ f.origin = callNo

\* C19: the ingestion of a single file as an asset type, the move not
\* failing, returns the success message; the file is at
\* <asset folder>/<file name>, where exactly one file is and holds this
\* upload's content, the upload is no longer where it was, and the table is
\* as it was.
C19_SingleAssetMovedAndReplaced ==
    LET dst == Append(get_final_directory(ctype), input.name)
    IN  (/\ pc = "returned"
         /\ input.ext \notin {".zip", ".rar"}
         /\ ctype \in AssetTypes
         /\ hist.faultDirs = {}) =>
            /\ result = MessageResult(dst)
            /\ Cardinality({f \in files : f.path = dst}) = 1
            /\ \A f \in files : f.path = dst => f.origin = callNo
            /\ \A f \in files : f.path # UploadPath(input)
            /\ db = hist.dbStart

\* C19 witness: the second ingestion of a file of the same name for the
\* same asset type has returned its success message.
C19_Witness ==
    /\ pc = "returned"
    /\ input.ext \notin {".zip", ".rar"}
    /\ ctype \in AssetTypes
    /\ hist.prev.valid
    /\ hist.prev.input = input
    /\ hist.prev.ctype = ctype
    /\ hist.prev.kind = "message"
    /\ result.kind = "message"
    /\ callNo = 2

\* C20: delete_song_by_id, the database not failing, returns true and
\* removes exactly the record with the id when the table has it, returns
\* false and removes nothing when it has not; every other record and the
\* whole file system, the folder of the deleted record included, are as
\* they were.
C20_DeleteRemovesOnlyTheRecord ==
    LET d == hist.del
        present == \E r \in d.preDb : r.id = d.song_id
    IN  (d.valid /\ ~d.fault) =>
            /\ d.ret = present
            /\ db = {r \in d.preDb : r.id # d.song_id}
            /\ present => Cardinality(d.preDb \ db) = 1
            /\ ~present => db = d.preDb
            /\ files = d.preFiles
            /\ dirs = d.preDirs

\* C20 witness: a delete returned true for one of two records while the
\* folder of the deleted record held a file.
C20_Witness ==
    LET d == hist.del
    IN  /\ d.valid
        /\ d.ret
        /\ db # {}
        /\ \E r \in d.preDb \ db : \E f \in files : IsPrefix(r.file_path, f.path)

(***************************************************************************)
(* SpecParse: parse_song_ini applied to one song.ini.                      *)
(***************************************************************************)
\* The values the song.ini files of SpecParse give to name, artist, genre.
NameValues == {<<>>, <<" ">>, <<"t">>, <<" ", "t", " ">>, <<"5", "%">>, <<"%", "%">>}

ArtistValues == {<<"r">>, <<" ">>}

GenreValues == {<<" ", "g">>, <<"%">>}

\* The song.ini files: unreadable, without a [song] section, or with any
\* set of keys.
IniFiles ==
    {Descriptor(st[1], st[2], pr, n, a, <<"m">>, g, <<"c">>) :
        st \in {<<TRUE, TRUE>>, <<TRUE, FALSE>>, <<FALSE, FALSE>>},
        pr \in SUBSET Keys, n \in NameValues, a \in ArtistValues, g \in GenreValues}

\* No request is being served: the table and the file system are empty.
IdleStore ==
    /\ db = {}
    /\ nextId = 1
    /\ hasUnique = FALSE
    /\ cpc = [c \in Callers |-> "done"]
    /\ ctriple = [c \in Callers |-> Triple(<<"t">>, <<"r">>, <<"m">>)]
    /\ cret = [c \in Callers |-> 0]
    /\ pending = [c \in Callers |-> {}]
    /\ dirs = {}
    /\ files = {}
    /\ pathlibRaises = FALSE

InitParse ==
    /\ IdleStore
    /\ IdleCall
    /\ iniFile \in IniFiles
    /\ parseRet = <<>>
    /\ beat_times = <<>>
    /\ syncTrack = <<>>
    /\ IdleFn

\* parsed = parse_song_ini(ini_path)
ParseSongIni ==
    /\ parseRet = <<>>
    /\ parseRet' = <<parse_song_ini(iniFile)>>
    /\ UNCHANGED <<db, nextId, hasUnique, storeVars, fsVars, pathlibRaises,
                   callVars, iniFile, beat_times, syncTrack, locals, ret>>

NextParse == ParseSongIni

SpecParse == InitParse /\ [][NextParse]_vars

\* The descriptor cannot be read, has no [song] section, or one of name,
\* artist, album is missing or empty after trimming.
ShouldSkip(d) ==
    \/ ~d.readable
    \/ ~d.hasSong
    \/ \E k \in Required : k \notin d.present \/ Strip(d.opts[k]) = <<>>

\* C13: parse_song_ini raises nothing; it returns the empty result exactly
\* for the descriptors of ShouldSkip, and otherwise the trimmed name, artist
\* and album of the descriptor, all three non-empty.
C13_SkipExactlyWhenInvalid ==
    parseRet # <<>> =>
        LET r == parseRet[1]
        IN  /\ ~r.raises
            /\ r.ok = ~ShouldSkip(iniFile)
            /\ r.ok => /\ r.title = Strip(iniFile.opts["name"])
                       /\ r.artist = Strip(iniFile.opts["artist"])
                       /\ r.album = Strip(iniFile.opts["album"])
                       /\ r.title # <<>> /\ r.artist # <<>> /\ r.album # <<>>

\* C14: every key of the [song] section other than name, artist and album
\* is in the metadata of the parsed song with its trimmed value.
C14_AllOtherKeysKept ==
    (parseRet # <<>> /\ parseRet[1].ok) =>
        \A k \in iniFile.present \ Required :
            /\ k \in DOMAIN parseRet[1].metadata
            /\ parseRet[1].metadata[k] = Strip(iniFile.opts[k])

(***************************************************************************)
(* SpecChart: generate_notes_chart applied to one sequence of beat times.  *)
(* A beat time is an integer number of microseconds; beat_times, which     *)
(* librosa computes from increasing frame numbers, is strictly increasing. *)
(***************************************************************************)
BeatMicros == {0, 999, 1999, 2000, 500000, 500500}

BeatSequences ==
    {b \in UNION {[1..n -> BeatMicros] : n \in 0..MaxBeats} :
        \A i \in 1..(Len(b) - 1) : b[i] < b[i + 1]}

\* int(time * 1000) for the time of u microseconds: the product is
\* truncated.  The product is a float: for a whole number of milliseconds
\* it can fall just below the integer (1.001 * 1000 is 1000.9999999999999),
\* and the truncation then gives one less.
ToMillis(u) ==
    IF u % 1000 = 0 /\ u > 0 THEN {u \div 1000, (u \div 1000) - 1} ELSE {u \div 1000}

InitChart ==
    /\ IdleStore
    /\ IdleCall
    /\ iniFile = Blob
    /\ parseRet = <<>>
    /\ beat_times \in BeatSequences
    /\ syncTrack = <<>>
    /\ IdleFn

\* generate_notes_chart: one line "<ms> = TS <ms>" of [SyncTrack] per beat,
\* in the order of beat_times; syncTrack holds the <ms> of the lines.
GenerateNotesChart ==
    /\ syncTrack = <<>>
    /\ \E lines \in [1..Len(beat_times) -> UNION {ToMillis(u) : u \in BeatMicros}] :
          /\ \A i \in 1..Len(beat_times) : lines[i] \in ToMillis(beat_times[i])
          /\ syncTrack' = <<lines>>
    /\ UNCHANGED <<db, nextId, hasUnique, storeVars, fsVars, pathlibRaises,
                   callVars, iniFile, parseRet, beat_times, locals, ret>>

NextChart == GenerateNotesChart

SpecChart == InitChart /\ [][NextChart]_vars

\* C16: the timestamps of the synchronization track are strictly
\* increasing, so no timestamp occurs twice.
C16_SyncTrackStrictlyIncreasing ==
    syncTrack # <<>> =>
        \A i, j \in 1..Len(syncTrack[1]) : i < j => syncTrack[1][i] < syncTrack[1][j]

\* The integer nearest to u / 1000.
RoundMillis(u) == (u + 500) \div 1000

\* C17: the event of each beat carries the beat's time rounded to the
\* nearest millisecond.
C17_TimestampRounded ==
    syncTrack # <<>> =>
        \A i \in 1..Len(syncTrack[1]) : syncTrack[1][i] = RoundMillis(beat_times[i])

(***************************************************************************)
(* SpecList: get_all_songs applied to one table.                           *)
(***************************************************************************)
\* Largest number of rows of the table, largest limit and largest offset.
MaxRows == 3
MaxLimit == 2
MaxOffset == 2

\* s LIKE p after both were folded to lower case: % stands for any run of
\* characters, _ for any one character, every other character for itself.
\* (The patterns of SearchTerms hold no backslash, the escape character.)
RECURSIVE Like(_, _)
Like(s, p) ==
    IF p = <<>> THEN s = <<>>
    ELSE IF Head(p) = "%" THEN Like(s, Tail(p)) \/ (s # <<>> /\ Like(Tail(s), p))
    ELSE IF Head(p) = "_" THEN s # <<>> /\ Like(Tail(s), Tail(p))
    ELSE s # <<>> /\ Head(s) = Head(p) /\ Like(Tail(s), Tail(p))

\* s ILIKE p
ILike(s, p) == Like(Lower(s), Lower(p))

\* f"%{search_query.strip()}%"
SearchPattern(search_query) == <<"%">> \o Strip(search_query) \o <<"%">>

\* WHERE title ILIKE %s OR artist ILIKE %s OR album ILIKE %s
Filtered(rows, search_query) ==
    LET p == SearchPattern(search_query)
    IN  {r \in rows : ILike(r.title, p) \/ ILike(r.artist, p) \/ ILike(r.album, p)}

\* ORDER BY id DESC
RECURSIVE OrderByIdDesc(_)
OrderByIdDesc(rows) ==
    IF rows = {} THEN <<>>
    ELSE LET top == CHOOSE r \in rows : \A x \in rows : x.id <= r.id
         IN  <<top>> \o OrderByIdDesc(rows \ {top})

\* LIMIT %s OFFSET %s
LimitOffset(seq, limit, offset) ==
    SubSeq(seq, offset + 1, IF offset + limit < Len(seq) THEN offset + limit ELSE Len(seq))

\* get_all_songs(search_query, limit, offset); search_query is <<>> for
\* None and for "".  A failure of the connection or of the query is caught
\* and an empty list is returned.
get_all_songs(rows, search_query, limit, offset, fault) ==
    IF fault THEN <<>>
    ELSE IF search_query # <<>> /\ Strip(search_query) # <<>>
         THEN LimitOffset(OrderByIdDesc(Filtered(rows, search_query)), limit, offset)
         ELSE LimitOffset(OrderByIdDesc(rows), limit, offset)

\* The titles of the rows of SpecList; artist and album are "r" and "m".
ListTitles == {<<"t", "u">>, <<"T">>, <<"u", "_">>}

\* The tables: ids 1..n in the order of insertion.
ListTables ==
    {{NewRow(i, Triple(t[i], <<"r">>, <<"m">>),
             FinalDir(Append(get_final_directory("songs"), <<"r">>), t[i], ToString(i)), {}) :
         i \in 1..Len(t)} :
       t \in UNION {[1..k -> ListTitles] : k \in 0..MaxRows}}

SearchTerms == {<<>>, <<" ">>, <<"T">>, <<"m">>, <<"_">>, <<"u", "%">>}

InitList ==
    /\ db \in ListTables
    /\ nextId = Cardinality(db) + 1
    /\ hasUnique = FALSE
    /\ cpc = [c \in Callers |-> "done"]
    /\ ctriple = [c \in Callers |-> Triple(<<"t">>, <<"r">>, <<"m">>)]
    /\ cret = [c \in Callers |-> 0]
    /\ pending = [c \in Callers |-> {}]
    /\ dirs = {}
    /\ files = {}
    /\ pathlibRaises = FALSE
    /\ IdleCall
    /\ iniFile = Blob
    /\ parseRet = <<>>
    /\ beat_times = <<>>
    /\ syncTrack = <<>>
    /\ locals \in [search_query : SearchTerms, limit : 1..MaxLimit,
                    offset : 0..MaxOffset, fault : BOOLEAN]
    /\ ret = <<>>

\* songs = get_all_songs(search_query, limit, offset)
GetAllSongs ==
    /\ ret = <<>>
    /\ ret' = <<get_all_songs(db, locals.search_query, locals.limit,
                               locals.offset, locals.fault)>>
    /\ UNCHANGED <<db, nextId, hasUnique, storeVars, fsVars, pathlibRaises,
                   callVars, iniFile, parseRet, beat_times, syncTrack, locals>>

NextList == GetAllSongs

SpecList == InitList /\ [][NextList]_vars

\* term occurs in s as a run of consecutive characters, case folded.
Contains(s, term) ==
    \E i \in 0..(Len(s) - Len(term)) :
        Lower(SubSeq(s, i + 1, i + Len(term))) = Lower(term)

\* The record matches the term: a blank or absent term matches every
\* record, any other term the records that contain it in title, artist
\* or album.
MatchesTerm(r, term) ==
    \/ Strip(term) = <<>>
    \/ Contains(r.title, term) \/ Contains(r.artist, term) \/ Contains(r.album, term)

\* C21: the list is the records that match the term, most recently
\* inserted first, from the one numbered offset to the one numbered
\* offset + limit - 1.
C21_ListIsNewestMatchingPage ==
    (ret # <<>> /\ ~locals.fault) =>
        LET matching == OrderByIdDesc({r \in db : MatchesTerm(r, locals.search_query)})
        IN  /\ Len(ret[1]) <= locals.limit
            /\ \A i \in 1..Len(ret[1]) :
                  /\ locals.offset + i <= Len(matching)
                  /\ ret[1][i] = matching[locals.offset + i]
            /\ Len(ret[1]) = locals.limit \/ locals.offset + Len(ret[1]) >= Len(matching)

\* C22: the song ingestion of an archive none of whose descriptors is
\* usable gives its caller the empty list and no error: extract_content
\* returns the empty list and the answer of upload_content is no error.
C22_NoDescriptorGivesEmptyList ==
    (/\ pc = "idle"
     /\ hist.prev.valid
     /\ hist.prev.ctype = "songs"
     /\ Extracted(hist.prev.input)
     /\ ValidMembers(hist.prev.input) = {}) =>
        /\ hist.prev.kind = "list"
        /\ hist.prev.ids = {}
        /\ hist.prev.response.kind # "error"

(***************************************************************************)
(* SpecAnalyze: process_song_file applied to one audio file.  Times are    *)
(* integer numbers of microseconds.                                        *)
(***************************************************************************)
\* The audio files: their length, and whether librosa.load can decode them.
AudioMicros == {500000, 999999, 1000000, 2000000}

AudioFiles == [micros : AudioMicros, decodable : BOOLEAN]

Tempos == {0, 120}

\* OUTPUT_DIR
OUTPUT_DIR == Append(ContentBase, Seg("generator"))

\* What analyze_audio(file_path) can return for the file: librosa's tempo
\* and the times of the beats it places within the signal.  No statement
\* of analyze_audio looks at the length of the signal.
analyze_audio(audio) ==
    IF ~audio.decodable THEN {[raises |-> TRUE, tempo |-> 0, beat_times |-> <<>>]}
    ELSE {[raises |-> FALSE, tempo |-> t, beat_times |-> b] :
            t \in Tempos,
            b \in {s \in BeatSequences : \A i \in 1..Len(s) : s[i] <= audio.micros}}

\* process_song_file(file_path), given what analyze_audio returned: the
\* directories and files after it and the dict it returns.  (store_content
\* is a coroutine function: the call of line 58 makes a coroutine that is
\* never run.)
process_song_file(D, F, analysis) ==
    IF analysis.raises
    THEN [dirs |-> D, files |-> F, ret |-> ErrorResult("analysis failed")]
    ELSE LET song_output_dir == Append(OUTPUT_DIR, Seg("song"))
             notes_chart_path == Append(song_output_dir, Seg("notes.chart"))
         IN  [dirs |-> D \cup Prefixes(song_output_dir),
              files |-> {f \in F : f.path # notes_chart_path}
                          \cup {[path |-> notes_chart_path, data |-> "chart", origin |-> 1]},
              ret |-> [kind |-> "message", items |-> <<notes_chart_path>>,
                       error |-> "", tempo |-> analysis.tempo,
                       beat_times |-> analysis.beat_times]]

InitAnalyze ==
    /\ IdleStore
    /\ IdleCall
    /\ iniFile = Blob
    /\ parseRet = <<>>
    /\ beat_times = <<>>
    /\ syncTrack = <<>>
    /\ locals \in [file : AudioFiles]
    /\ ret = <<>>

\* result = process_song_file(file_path)
ProcessSongFile ==
    /\ ret = <<>>
    /\ \E analysis \in analyze_audio(locals.file) :
          LET done == process_song_file(dirs, files, analysis)
          IN  /\ dirs' = done.dirs
              /\ files' = done.files
              /\ ret' = <<done.ret>>
    /\ UNCHANGED <<db, nextId, hasUnique, storeVars, pathlibRaises, callVars,
                   iniFile, parseRet, beat_times, syncTrack, locals>>

NextAnalyze == ProcessSongFile

SpecAnalyze == InitAnalyze /\ [][NextAnalyze]_vars

\* C23: the analysis of an input shorter than one second fails: it gives an
\* error, no tempo and no beat sequence, and no chart file is written.
C23_ShortAudioRejected ==
    (ret # <<>> /\ locals.file.micros < 1000000) =>
        /\ ret[1].kind = "error"
        /\ files = {}

(***************************************************************************)
(* SpecScratch: extract_content calls of two server processes that share   *)
(* the temporary directory.  The archives hold no usable descriptor, so    *)
(* process_and_store_content moves nothing and returns the empty list.     *)
(***************************************************************************)
\* Number of extract_content calls that overlap.
NumOverlap == 2

Overlapping == 1..NumOverlap

\* The values of uuid4().hex[:6] the overlapping calls can draw.
OverlapTokens == {"s", "t"}

ZNotes == Zip(<<Member(<<A, Notes>>, "blob")>>)

OverlapArchives == {ZNotes, ZNoSong}

NotStarted(in) ==
    [pc |-> "start", input |-> in, scratch |-> <<>>, fresh |-> TRUE,
     written |-> {}, result |-> NoResult]

InitScratch ==
    /\ db = {}
    /\ nextId = 1
    /\ hasUnique = FALSE
    /\ cpc = [c \in Callers |-> "done"]
    /\ ctriple = [c \in Callers |-> Triple(<<"t">>, <<"r">>, <<"m">>)]
    /\ cret = [c \in Callers |-> 0]
    /\ pending = [c \in Callers |-> {}]
    /\ dirs = {TmpDir, ContentBase}
    /\ files = {}
    /\ pathlibRaises = FALSE
    /\ IdleCall
    /\ iniFile = Blob
    /\ parseRet = <<>>
    /\ beat_times = <<>>
    /\ syncTrack = <<>>
    /\ \E ins \in [Overlapping -> OverlapArchives] :
          locals = [c \in Overlapping |-> NotStarted(ins[c])]
    /\ ret = <<>>

\* Lines 80 and 86: the name is drawn and the directory made; a directory
\* that exists already is accepted (exist_ok=True).
MakeScratch(c) ==
    /\ locals[c].pc = "start"
    /\ \E tok \in OverlapTokens :
          /\ dirs' = dirs \cup Prefixes(ScratchDir(tok))
          /\ locals' = [locals EXCEPT ![c].pc = "extract",
                                      ![c].scratch = ScratchDir(tok),
                                      ![c].fresh = ScratchDir(tok) \notin dirs]
    /\ UNCHANGED <<db, nextId, hasUnique, storeVars, files, pathlibRaises,
                   callVars, iniFile, parseRet, beat_times, syncTrack, ret>>

\* Line 89: the archive is unpacked into the directory.
ExtractOverlapping(c) ==
    /\ locals[c].pc = "extract"
    /\ LET ex == extract_archive(locals[c].input, dirs, files, locals[c].scratch, c)
       IN  /\ dirs' = ex.fs.dirs
           /\ files' = ex.fs.files
           /\ locals' = [locals EXCEPT ![c].pc = "store",
                                       ![c].written = ex.fs.written]
    /\ UNCHANGED <<db, nextId, hasUnique, storeVars, pathlibRaises, callVars,
                   iniFile, parseRet, beat_times, syncTrack, ret>>

\* Line 94: store_extracted_content walks the directory, finds no usable
\* descriptor and returns the empty list.
StoreOverlapping(c) ==
    /\ locals[c].pc = "store"
    /\ locals' = [locals EXCEPT ![c].pc = "cleanup", ![c].result = ListResult(<<>>)]
    /\ UNCHANGED <<db, nextId, hasUnique, storeVars, fsVars, pathlibRaises,
                   callVars, iniFile, parseRet, beat_times, syncTrack, ret>>

\* Lines 110-111: the finally clause removes the directory.
CleanupOverlapping(c) ==
    /\ locals[c].pc = "cleanup"
    /\ dirs' = RmTreeDirs(dirs, locals[c].scratch)
    /\ files' = RmTreeFiles(files, locals[c].scratch)
    /\ locals' = [locals EXCEPT ![c].pc = "done"]
    /\ UNCHANGED <<db, nextId, hasUnique, storeVars, pathlibRaises, callVars,
                   iniFile, parseRet, beat_times, syncTrack, ret>>

NextScratch ==
    \E c \in Overlapping :
        \/ MakeScratch(c)
        \/ ExtractOverlapping(c)
        \/ StoreOverlapping(c)
        \/ CleanupOverlapping(c)

SpecScratch == InitScratch /\ [][NextScratch]_vars

\* The call has made its directory and not yet removed it.
HoldsScratch(c) == locals[c].pc \in {"extract", "store", "cleanup"}

\* C24: two calls that overlap have different scratch directories, the
\* directory of a call did not exist before the call made it, and the
\* files a call extracted are there until the call itself cleans up.
C24_ScratchDirectoriesDisjoint ==
    /\ \A c1, c2 \in Overlapping :
          (c1 # c2 /\ HoldsScratch(c1) /\ HoldsScratch(c2))
             => locals[c1].scratch # locals[c2].scratch
    /\ \A c \in Overlapping : locals[c].fresh
    /\ \A c \in Overlapping :
          locals[c].pc \in {"store", "cleanup"}
             => \A p \in locals[c].written : \E f \in files : f.path = p

(***************************************************************************)
(* SpecMove: one shutil.move(src, dst) of the ingestion, step by step.     *)
(* os.rename moves everything at once; when it raises OSError (another     *)
(* file system, for one) the source is copied to the destination, entry    *)
(* by entry, and removed afterwards.  Any step can fail.                   *)
(***************************************************************************)
\* What is moved: a song folder of the scratch directory (line 106 of
\* content_manager.py) or an uploaded asset file (line 103 of
\* content_utils.py).  rel is the path of a file below src.
SongFolderMoves ==
    {[src |-> Append(ScratchDir("s"), A),
      dst |-> FinalDir(Append(get_final_directory("songs"), <<"r">>), <<"t">>, "1"),
      isDir |-> TRUE, content |-> c] :
        c \in {{[rel |-> <<Ini>>, data |-> "good"]},
               {[rel |-> <<Ini>>, data |-> "good"], [rel |-> <<Notes>>, data |-> "blob"]},
               {[rel |-> <<Ini>>, data |-> "good"], [rel |-> <<Notes>>, data |-> "blob"],
                [rel |-> <<B, Ini>>, data |-> "other"]},
               {[rel |-> <<Ini>>, data |-> "good"], [rel |-> <<Notes>>, data |-> "blob"],
                [rel |-> <<B, Ini>>, data |-> "other"], [rel |-> <<B, Notes>>, data |-> "blob"]}}}

AssetFileMoves ==
    {[src |-> UploadPath(Png),
      dst |-> Append(get_final_directory("backgrounds"), Png.name),
      isDir |-> FALSE, content |-> {[rel |-> <<>>, data |-> "blob"]}]}

\* The files of the content at the place base.
Placed(content, base, origin) ==
    {[path |-> base \o c.rel, data |-> c.data, origin |-> origin] : c \in content}

\* The directories the files of the content need at the place base.
PlacedDirs(mv, base) ==
    UNION {Prefixes(Front(base \o c.rel)) : c \in mv.content}
        \cup (IF mv.isDir THEN Prefixes(base) ELSE {})

\* An entry of the source may be removed as soon as it has been copied
\* (a plausible bug: copy and removal interleaved).
SourceRemovableOnceCopied(m, rel) == rel \in m.copied

\* An entry of the source may be removed: rmtree(src), or os.unlink(src),
\* comes after copytree, or copy2, has returned without an error.
SourceRemovable(m, rel) == m.phase = "remove"

InitMove ==
    /\ db = {}
    /\ nextId = 1
    /\ hasUnique = FALSE
    /\ cpc = [c \in Callers |-> "done"]
    /\ ctriple = [c \in Callers |-> Triple(<<"t">>, <<"r">>, <<"m">>)]
    /\ cret = [c \in Callers |-> 0]
    /\ pending = [c \in Callers |-> {}]
    /\ pathlibRaises = FALSE
    /\ IdleCall
    /\ iniFile = Blob
    /\ parseRet = <<>>
    /\ beat_times = <<>>
    /\ syncTrack = <<>>
    /\ \E mv \in SongFolderMoves \cup AssetFileMoves, old \in BOOLEAN :
          /\ locals = [mv |-> mv, phase |-> "start", copying |-> {}, copied |-> {},
                    failed |-> {}]
          /\ dirs = {TmpDir, ContentBase} \cup PlacedDirs(mv, mv.src)
                       \cup Prefixes(Front(mv.dst))
          \* old: a file of an earlier upload is at the destination
          /\ files = Placed(mv.content, mv.src, 1)
                       \cup (IF old /\ ~mv.isDir
                             THEN {[path |-> mv.dst, data |-> "old", origin |-> 0]}
                             ELSE {})
    /\ ret = <<>>

MoveUnchanged ==
    UNCHANGED <<db, nextId, hasUnique, storeVars, pathlibRaises, callVars,
                iniFile, parseRet, beat_times, syncTrack>>

\* os.rename(src, real_dst) succeeds: the content is at the destination,
\* a regular file that was there is replaced.
Rename ==
    /\ locals.phase = "start"
    /\ LET mv == locals.mv
       IN  /\ files' = {f \in files : ~IsPrefix(mv.src, f.path) /\ f.path # mv.dst}
                          \cup Placed(mv.content, mv.dst, 1)
           /\ dirs' = {d \in dirs : ~IsPrefix(mv.src, d)} \cup PlacedDirs(mv, mv.dst)
    /\ locals' = [locals EXCEPT !.phase = "done"]
    /\ ret' = <<"moved">>
    /\ MoveUnchanged

\* os.rename raises OSError: shutil.move turns to copytree (which makes the
\* destination directory) or copy2.
RenameRaises ==
    /\ locals.phase = "start"
    /\ dirs' = IF locals.mv.isDir THEN dirs \cup {locals.mv.dst} ELSE dirs
    /\ locals' = [locals EXCEPT !.phase = "copy"]
    /\ UNCHANGED <<files, ret>>
    /\ MoveUnchanged

\* The copy of one entry starts: the file at the destination is opened
\* for writing, what it held is gone.
CopyBegin ==
    /\ locals.phase = "copy"
    /\ locals.copying = {}
    /\ \E c \in locals.mv.content :
          /\ c.rel \notin locals.copied \cup locals.failed
          /\ LET target == locals.mv.dst \o c.rel
             IN  /\ files' = {f \in files : f.path # target}
                                \cup {[path |-> target, data |-> "partial", origin |-> 1]}
                 /\ dirs' = dirs \cup Prefixes(Front(target))
          /\ locals' = [locals EXCEPT !.copying = {c}]
    /\ UNCHANGED ret
    /\ MoveUnchanged

\* The copy of the entry ends; a copy that fails leaves a part of the file
\* and is reported when every entry has been tried.  With all entries
\* copied the removal of the source starts.
CopyEnd ==
    /\ locals.phase = "copy"
    /\ \E c \in locals.copying, ok \in BOOLEAN :
          LET target == locals.mv.dst \o c.rel
              copied == IF ok THEN locals.copied \cup {c.rel} ELSE locals.copied
              failed == IF ok THEN locals.failed ELSE locals.failed \cup {c.rel}
              tried == copied \cup failed = {x.rel : x \in locals.mv.content}
          IN  /\ files' = IF ok
                          THEN {f \in files : f.path # target}
                                 \cup {[path |-> target, data |-> c.data, origin |-> 1]}
                          ELSE files
              /\ locals' = [locals EXCEPT
                    !.copying = {}, !.copied = copied, !.failed = failed,
                    !.phase = IF ~tried THEN "copy"
                              ELSE IF failed = {} THEN "remove" ELSE "raised"]
              /\ ret' = IF tried /\ failed # {} THEN <<"raised">> ELSE ret
    /\ UNCHANGED dirs
    /\ MoveUnchanged

\* One entry of the source is removed, the source directory with the last
\* one; a removal that fails ends the move with an exception.
RemoveEntry ==
    /\ locals.phase \in {"copy", "remove"}
    /\ \E c \in locals.mv.content, ok \in BOOLEAN :
          /\ SourceRemovable(locals, c.rel)
          /\ \E f \in files : f.path = locals.mv.src \o c.rel
          /\ LET left == {f \in files : f.path # locals.mv.src \o c.rel}
                 last == ~\E f \in left : IsPrefix(locals.mv.src, f.path)
             IN  IF ok
                 THEN /\ files' = left
                      /\ dirs' = IF last /\ locals.phase = "remove"
                                 THEN {d \in dirs : ~IsPrefix(locals.mv.src, d)}
                                 ELSE dirs
                      /\ locals' = [locals EXCEPT
                            !.phase = IF last /\ locals.phase = "remove"
                                      THEN "done" ELSE locals.phase]
                      /\ ret' = IF last /\ locals.phase = "remove"
                                THEN <<"moved">> ELSE ret
                 ELSE /\ locals' = [locals EXCEPT !.phase = "raised"]
                      /\ ret' = <<"raised">>
                      /\ UNCHANGED <<dirs, files>>
    /\ MoveUnchanged

NextMove == Rename \/ RenameRaises \/ CopyBegin \/ CopyEnd \/ RemoveEntry

SpecMove == InitMove /\ [][NextMove]_vars

\* The whole content is at the place base.
FullAt(base) == Placed(locals.mv.content, base, 1) \subseteq files

MaxChunks == 2

AbandonInputs == {ZNotes, ZNoSong, ZCorrupt, Png}

\* extract_content(file_path, content_type), whole, for an upload without
\* usable descriptor: the file system after it and what it returns.
ExtractContentWhole(in, content_type, D, F) ==
    LET tmp == ScratchDir("s")
        final == get_final_directory(content_type)
    IN  IF in.ext \in {".zip", ".rar"}
        THEN LET ex == extract_archive(in, D \cup Prefixes(tmp), F, tmp, 1)
             IN  IF ex.error # ""
                 THEN [dirs |-> RmTreeDirs(ex.fs.dirs, tmp),
                       files |-> RmTreeFiles(ex.fs.files, tmp),
                       result |-> ErrorResult(ex.error)]
                 ELSE [dirs |-> RmTreeDirs(ex.fs.dirs, tmp),
                       files |-> RmTreeFiles({f \in ex.fs.files : f.path # UploadPath(in)}, tmp),
                       result |-> ListResult(<<>>)]
        ELSE IF content_type = "songs"
        THEN [dirs |-> D \cup Prefixes(final), files |-> F,
              result |-> ErrorResult("Please upload a .zip or .rar file containing a song.ini")]
        ELSE LET mv == MoveFile(D \cup Prefixes(final), F, UploadPath(in),
                                Append(final, in.name), FALSE)
             IN  [dirs |-> mv.dirs, files |-> mv.files,
                  result |-> IF mv.ok THEN MessageResult(mv.real) ELSE ErrorResult("exception")]

InitAbandon ==
    /\ db = {}
    /\ nextId = 1
    /\ hasUnique = FALSE
    /\ cpc = [c \in Callers |-> "done"]
    /\ ctriple = [c \in Callers |-> Triple(<<"t">>, <<"r">>, <<"m">>)]
    /\ cret = [c \in Callers |-> 0]
    /\ pending = [c \in Callers |-> {}]
    /\ dirs = {TmpDir, ContentBase}
    /\ files = {}
    /\ pathlibRaises = FALSE
    /\ IdleCall
    /\ iniFile = Blob
    /\ parseRet = <<>>
    /\ beat_times = <<>>
    /\ syncTrack = <<>>
    /\ \E in \in AbandonInputs, ct \in {"songs", "backgrounds"}, n \in 1..MaxChunks :
          locals = [pc |-> "open", input |-> in, content_type |-> ct, chunks |-> n,
                    written |-> 0, cancel |-> "none", job |-> "queued",
                    response |-> NoResult]
    /\ ret = <<>>

AbandonUnchanged ==
    UNCHANGED <<db, nextId, hasUnique, storeVars, pathlibRaises, callVars,
                iniFile, parseRet, beat_times, syncTrack>>

\* The caller abandons the request: the task is cancelled.
Abandon ==
    /\ locals.pc # "done"
    /\ locals.cancel = "none"
    /\ locals' = [locals EXCEPT !.cancel = "requested"]
    /\ UNCHANGED <<dirs, files, ret>>
    /\ AbandonUnchanged

\* An executor thread takes the job of aiofiles.open.
ThreadTake ==
    /\ locals.job = "queued"
    /\ locals' = [locals EXCEPT !.job = "running"]
    /\ UNCHANGED <<dirs, files, ret>>
    /\ AbandonUnchanged

\* The thread runs open(temp_file_path, "wb"): the file is there, empty.
ThreadOpen ==
    /\ locals.job = "running"
    /\ files' = {f \in files : f.path # UploadPath(locals.input)}
                  \cup {[path |-> UploadPath(locals.input), data |-> "partial", origin |-> 1]}
    /\ locals' = [locals EXCEPT !.job = "done"]
    /\ UNCHANGED <<dirs, ret>>
    /\ AbandonUnchanged

\* Line 68: the task is resumed with the opened file.
OpenReturn ==
    /\ locals.pc = "open"
    /\ locals.job = "done"
    /\ locals' = [locals EXCEPT !.pc = "write"]
    /\ UNCHANGED <<dirs, files, ret>>
    /\ AbandonUnchanged

\* CancelledError is raised in the task at the await of line 68, 69 or 70.
\* It is no Exception: the except clause is passed over and the finally
\* clause runs.  A job no thread has taken is cancelled with the task; a
\* job a thread is running goes on.
Deliver ==
    /\ locals.cancel = "requested"
    /\ locals.pc \in {"open", "write"}
    /\ locals' = [locals EXCEPT
          !.pc = "finally", !.cancel = "delivered",
          !.job = IF locals.job = "queued" THEN "cancelled" ELSE locals.job,
          !.response = [kind |-> "cancelled", items |-> <<>>, error |-> ""]]
    /\ UNCHANGED <<dirs, files, ret>>
    /\ AbandonUnchanged

\* Lines 69-70: one chunk is written, or the write raises and the except
\* clause answers; after the last chunk extract_content is entered.
WriteChunk ==
    /\ locals.pc = "write"
    /\ \E ok \in BOOLEAN :
          IF ok
          THEN /\ files' = {f \in files : f.path # UploadPath(locals.input)}
                             \cup {[path |-> UploadPath(locals.input),
                                    data |-> IF locals.written + 1 = locals.chunks
                                             THEN "blob" ELSE "partial",
                                    origin |-> 1]}
               /\ locals' = [locals EXCEPT
                     !.written = locals.written + 1,
                     !.pc = IF locals.written + 1 = locals.chunks
                            THEN "extract" ELSE "write"]
          ELSE /\ files' = files
               /\ locals' = [locals EXCEPT
                     !.pc = "finally",
                     !.response = ErrorResult("Internal Server Error")]
    /\ UNCHANGED <<dirs, ret>>
    /\ AbandonUnchanged

\* Lines 75-88: extract_content and the answer of the route.
ExtractContent ==
    /\ locals.pc = "extract"
    /\ LET done == ExtractContentWhole(locals.input, locals.content_type, dirs, files)
       IN  /\ dirs' = done.dirs
           /\ files' = done.files
           /\ locals' = [locals EXCEPT
                 !.pc = "finally",
                 !.response = upload_content(done.result, locals.content_type)]
    /\ UNCHANGED ret
    /\ AbandonUnchanged

\* Lines 90-95: the finally clause removes the temporary file and the
\* request ends.
RemoveAndEnd ==
    /\ locals.pc = "finally"
    /\ files' = RemoveTempFile(files, UploadPath(locals.input)).files
    /\ locals' = [locals EXCEPT !.pc = "done"]
    /\ ret' = <<locals.response>>
    /\ UNCHANGED dirs
    /\ AbandonUnchanged

TaskStep == OpenReturn \/ Deliver \/ WriteChunk \/ ExtractContent \/ RemoveAndEnd

ThreadStep == ThreadTake \/ ThreadOpen

NextAbandon ==
    \/ Abandon
    \/ ThreadTake
    \/ ThreadOpen
    \/ OpenReturn
    \/ Deliver
    \/ WriteChunk
    \/ ExtractContent
    \/ RemoveAndEnd

\* The event loop runs the task while it can take a step, and the executor
\* runs its thread.
SpecAbandon ==
    InitAbandon /\ [][NextAbandon]_vars /\ WF_vars(TaskStep) /\ WF_vars(ThreadStep)

\* C26: a request that has ended, abandoned or not, has left neither its
\* temporary upload file nor a scratch directory.
C26_EndedRequestLeftNothing ==
    locals.pc = "done" =>
        /\ ~\E f \in files : IsPrefix(TmpDir, f.path)
        /\ ~\E d \in dirs : IsPrefix(TmpDir, d) /\ d # TmpDir

(***************************************************************************)
(* Claims about upload_content (Spec)                                      *)
(***************************************************************************)
\* C27: the answer of upload_content to a songs archive whose extraction
\* and storage succeeded (a list with at least one stored song, no move or
\* insert failing) is the storage result, not an error, and it reports
\* exactly the records the request stored.
C27_StoredSongsAnswered ==
    (/\ pc = "idle"
     /\ hist.prev.valid
     /\ hist.prev.ctype = "songs"
     /\ Extracted(hist.prev.input)
     /\ ~hist.prev.faulty
     /\ hist.prev.kind = "list"
     /\ hist.prev.ids # {}) =>
        /\ hist.prev.response.kind = "list"
        /\ ResultIds(hist.prev.response) = hist.prev.ids

C29_DeleteAnswers ==
    LET d == hist.del
        present == \E r \in d.preDb : r.id = d.song_id
    IN  d.valid =>
            /\ (~d.fault /\ ~present) => d.status = 404
            /\ (~d.fault /\ present) => (d.status = 200 /\ d.ret)
            /\ d.status = 500 => d.fault

(***************************************************************************)
(* SpecBoot: wait_for_db at the start of the application.                  *)
(***************************************************************************)
\* Largest value of max_retries (DB_RETRY_ATTEMPTS).
MaxRetries == 3

\* What the database does with the schema at one attempt.
DbOutcomes == {"ok", "OperationalError", "DatabaseError"}

\* execute_sql_file(sql_file): the exception that leaves it ("" when it
\* returns) and whether the commands of the file were executed.  The
\* errors of the database, those of get_connection included, are caught
\* and logged by its own except clause (lines 87-88).
execute_sql_file(sql_file, db_pool, outcome) ==
    IF sql_file = "missing" THEN [raises |-> "FileNotFoundError", executed |-> FALSE]
    ELSE IF sql_file = "empty" THEN [raises |-> "", executed |-> FALSE]
    ELSE IF db_pool = "none" THEN [raises |-> "RuntimeError", executed |-> FALSE]
    ELSE IF outcome = "ok" THEN [raises |-> "", executed |-> TRUE]
    ELSE [raises |-> "", executed |-> FALSE]

\* init_db()
init_db(sql_file, db_pool, outcome) == execute_sql_file(sql_file, db_pool, outcome)

InitBoot ==
    /\ IdleStore
    /\ IdleCall
    /\ iniFile = Blob
    /\ parseRet = <<>>
    /\ beat_times = <<>>
    /\ syncTrack = <<>>
    /\ \E m \in 0..MaxRetries, sql \in {"schema", "empty", "missing"},
          p \in {"up", "none"}, o \in [0..(MaxRetries - 1) -> DbOutcomes] :
          locals = [max_retries |-> m, sql_file |-> sql, db_pool |-> p, outcomes |-> o,
                    attempt |-> 0, executed |-> FALSE, slept |-> 0]
    /\ ret = <<>>

BootUnchanged ==
    UNCHANGED <<db, nextId, hasUnique, storeVars, fsVars, pathlibRaises, callVars,
                iniFile, parseRet, beat_times, syncTrack>>

\* Lines 52-64: one turn of the loop.  init_db returns: wait_for_db
\* returns.  An OperationalError or DatabaseError leaves init_db: sleep and
\* next attempt.  Any other exception is raised again.
WaitForDbAttempt ==
    /\ ret = <<>>
    /\ locals.attempt < locals.max_retries
    /\ LET r == init_db(locals.sql_file, locals.db_pool, locals.outcomes[locals.attempt])
       IN  IF r.raises = ""
           THEN /\ ret' = <<"returned">>
                /\ locals' = [locals EXCEPT !.attempt = locals.attempt + 1,
                                            !.executed = r.executed]
           ELSE IF r.raises \in {"OperationalError", "DatabaseError"}
           THEN /\ ret' = ret
                /\ locals' = [locals EXCEPT !.attempt = locals.attempt + 1,
                                            !.slept = locals.slept + 1]
           ELSE /\ ret' = <<r.raises>>
                /\ locals' = [locals EXCEPT !.attempt = locals.attempt + 1]
    /\ BootUnchanged

\* Lines 66-67: the loop is over, RuntimeError is raised.
WaitForDbGiveUp ==
    /\ ret = <<>>
    /\ locals.attempt >= locals.max_retries
    /\ ret' = <<"RuntimeError">>
    /\ UNCHANGED locals
    /\ BootUnchanged

NextBoot == WaitForDbAttempt \/ WaitForDbGiveUp

\* The event loop runs the lifespan coroutine; asyncio.sleep returns.
SpecBoot == InitBoot /\ [][NextBoot]_vars /\ WF_vars(NextBoot)

\* The attempts the database is ready at, among those wait_for_db may make.
ReadyAttempts == {k \in 0..(locals.max_retries - 1) : locals.outcomes[k] = "ok"}

\* C30: with the schema file and the connection pool in place, wait_for_db
\* goes on to the next attempt while the database answers with an error,
\* returns at the first attempt at which the schema was executed, and
\* raises when max_retries attempts have failed.
C30_ReturnsOnlyAfterSchemaExecuted ==
    (ret # <<>> /\ locals.sql_file = "schema" /\ locals.db_pool = "up") =>
        IF ReadyAttempts # {}
        THEN /\ ret[1] = "returned"
             /\ locals.executed
             /\ \A k \in ReadyAttempts : locals.attempt <= k + 1
             /\ locals.attempt - 1 \in ReadyAttempts
        ELSE /\ ret[1] = "RuntimeError"
             /\ locals.attempt = locals.max_retries
====
